---- MODULE Spec2Model ----
(***************************************************************************)
(* Model of tutorials/groq-gradio/groq-gradio-tutorial.ipynb: the three    *)
(* functions transcribe_audio, generate_response and process_audio, and    *)
(* the Gradio click handler that runs process_audio once per submission.   *)
(* Each invocation is a slot with its own Python locals; the two Groq      *)
(* endpoints are the environment, which answers an outstanding remote call *)
(* with a result or with an exception.                                     *)
(***************************************************************************)
EXTENDS Integers, Sequences, FiniteSets, TLC

\* Number of invocations that may be in progress at the same time.
NInv == 2

Inv == 1..NInv

----------------------------------------------------------------------------
\* Python values

\* Python's None, and a Python str used where None is also possible.
None == [kind |-> "None", s |-> ""]
Str(s) == [kind |-> "str", s |-> s]

\* A Gradio type="numpy" audio value: (sample rate, numpy array).
Clip(rate, ndim, dtype) ==
    [kind |-> "clip", rate |-> rate, ndim |-> ndim, dtype |-> dtype]
NoClip == [kind |-> "None", rate |-> 0, ndim |-> 0, dtype |-> ""]

GoodClip == Clip(16000, 1, "int16")
BadClip == Clip(16000, 3, "int16")

\* Inputs a caller may pass.
AudioInputs == {NoClip, GoodClip, BadClip}
KeyInputs == {None, Str(""), Str(" "), Str("abc")}
TranscriptInputs == {"", "hello"}

\* GROQ_API_KEY of the process environment, read by groq.Client when the
\* api_key argument is None.
EnvKeys == {None, Str("envkey")}

\* What the remote endpoints may answer.
FailureMessages == {"timeout", "401"}
TranscriptionOutcomes ==
    {[ok |-> TRUE, text |-> t, msg |-> ""] : t \in {"", "hello"}}
    \cup {[ok |-> FALSE, text |-> "", msg |-> m] : m \in FailureMessages}
CompletionOutcomes ==
    {[ok |-> TRUE, choices |-> c, msg |-> ""] : c \in {<<>>, <<"hi", "yo">>}}
    \cup {[ok |-> FALSE, choices |-> <<>>, msg |-> m] : m \in FailureMessages}
NoTranscriptionOutcome == [ok |-> FALSE, text |-> "", msg |-> "<none>"]
NoCompletionOutcome == [ok |-> FALSE, choices |-> <<>>, msg |-> "<none>"]

----------------------------------------------------------------------------
\* Pure parts of the three functions

\* Faulty variant: tests `api_key is None` instead of truthiness.
Truthy_NoneOnly(k) == k.kind = "str"

\* Python truthiness of the api_key argument: `if not api_key`.
Truthy(k) == k.kind = "str" /\ k.s # ""

\* Faulty variant: the empty-transcript check is missing.
TruthyStr_Always(t) == TRUE

\* Python truthiness of a str: `if not transcription`.
TruthyStr(t) == t # ""

GuidancePair == <<"Please enter your Groq API key.", "API key is required.">>

Placeholder == "No transcription available. Please try speaking again."

\* Faulty variant: the exception text is dropped from the message.
TranscriptionError_NoMessage(m) == "Error in transcription: "

TranscriptionError(m) == "Error in transcription: " \o m

ResponseError(m) == "Error in response generation: " \o m

\* Faulty variant: the key is stripped of whitespace before use.
GroqClient_Strip(k, env) ==
    IF k.kind = "None"
    THEN IF env.kind = "None"
         THEN [ok |-> FALSE, api_key |-> None]
         ELSE [ok |-> TRUE, api_key |-> env]
    ELSE [ok |-> TRUE, api_key |-> IF k.s = " " THEN Str("") ELSE k]

\* groq.Client(api_key=k): a None key falls back to the environment, and
\* raises GroqError when the environment has none either.
GroqClient(k, env) ==
    IF k.kind = "None"
    THEN IF env.kind = "None"
         THEN [ok |-> FALSE, api_key |-> None]
         ELSE [ok |-> TRUE, api_key |-> env]
    ELSE [ok |-> TRUE, api_key |-> k]

\* The environment values groq.Client(api_key=k) can see: it reads
\* GROQ_API_KEY only when k is None.
EnvRead(k) == IF k.kind = "None" THEN EnvKeys ELSE {None}

\* sf.write(buffer, audio[1], audio[0], format='wav') accepts one- and
\* two-dimensional arrays of four dtypes and raises on anything else.
CanEncode(a) ==
    /\ a.ndim \in {1, 2}
    /\ a.dtype \in {"int16", "int32", "float32", "float64"}
    /\ a.rate > 0

WavEncode(a) ==
    [format |-> "wav", samplerate |-> a.rate,
     channels |-> IF a.ndim = 1 THEN 1 ELSE 2, subtype |-> a.dtype]

TranscriptionRequest(client, a) ==
    [api_key |-> client.api_key,
     model |-> "distil-whisper-large-v3-en",
     file |-> <<"audio.wav", WavEncode(a)>>,
     response_format |-> "text"]

Messages(t) ==
    << [role |-> "system", content |-> "You are a helpful assistant."],
       [role |-> "user", content |-> t] >>

CompletionRequest(client, t) ==
    [api_key |-> client.api_key,
     model |-> "llama-3.1-70b-versatile",
     messages |-> Messages(t)]

NoRequest == [api_key |-> None]

Return(v) == [next |-> "return", value |-> v, exc |-> "", request |-> NoRequest]
Raise(e) == [next |-> "raise", value |-> "", exc |-> e, request |-> NoRequest]
Call(r) == [next |-> "call", value |-> "", exc |-> "", request |-> r]

\* Faulty variant: the `audio is None` check is missing, so audio[1]
\* raises TypeError.
TranscribeBegin_NoNoneCheck(a, k, env) ==
    IF ~GroqClient(k, env).ok THEN Raise("GroqError")
    ELSE IF a.kind = "None" THEN Raise("TypeError")
    ELSE IF ~CanEncode(a) THEN Raise("EncodeError")
    ELSE Call(TranscriptionRequest(GroqClient(k, env), a))

\* transcribe_audio from its entry to the point where it returns, raises
\* or blocks in client.audio.transcriptions.create.
TranscribeBegin(a, k, env) ==
    IF a.kind = "None" THEN Return("")
    ELSE IF ~GroqClient(k, env).ok THEN Raise("GroqError")
    ELSE IF ~CanEncode(a) THEN Raise("EncodeError")
    ELSE Call(TranscriptionRequest(GroqClient(k, env), a))

\* transcribe_audio from the answer of the remote call to its return.
TranscribeEnd(o) ==
    IF o.ok THEN o.text ELSE TranscriptionError(o.msg)

\* Faulty variant: an error-labelled Transcript is treated like an empty one.
GenerateBegin_SkipErrors(t, k, env) ==
    IF ~TruthyStr(t) \/ (Len(t) >= 24 /\ SubSeq(t, 1, 24) = "Error in transcription: ")
    THEN Return(Placeholder)
    ELSE IF ~GroqClient(k, env).ok THEN Raise("GroqError")
    ELSE Call(CompletionRequest(GroqClient(k, env), t))

\* generate_response from its entry to the point where it returns, raises
\* or blocks in client.chat.completions.create.
GenerateBegin(t, k, env) ==
    IF ~TruthyStr(t) THEN Return(Placeholder)
    ELSE IF ~GroqClient(k, env).ok THEN Raise("GroqError")
    ELSE Call(CompletionRequest(GroqClient(k, env), t))

\* Faulty variant: completion.choices[-1].message.content
LastChoice(choices) == choices[Len(choices)]

\* completion.choices[0].message.content
FirstChoice(choices) == choices[1]

\* generate_response from the answer of the remote call to its return; an
\* empty choices list raises IndexError inside the try block.
GenerateEnd(o) ==
    IF o.ok
    THEN IF Len(o.choices) = 0
         THEN ResponseError("list index out of range")
         ELSE FirstChoice(o.choices)
    ELSE ResponseError(o.msg)

----------------------------------------------------------------------------
\* State: one frame of locals per invocation, and what the endpoints saw

VARIABLES
    fn,             \* the function the caller invoked
    pc,             \* where the invocation stands
    audio,          \* parameter audio
    api_key,        \* parameter api_key
    transcription,  \* local transcription of process_audio / parameter of generate_response
    response,       \* local response of process_audio
    result,         \* the returned value(s), as a tuple of strings
    raised,         \* the exception that left the function, if any
    trCalls,        \* transcription requests the invocation has issued
    ccCalls,        \* chat-completion requests the invocation has issued
    trOut,          \* the answer to its transcription request
    ccOut,          \* the answer to its chat-completion request
    events          \* order of calls and returns within the invocation

vars == <<fn, pc, audio, api_key, transcription, response, result, raised,
          trCalls, ccCalls, trOut, ccOut, events>>

Init ==
    /\ fn = [i \in Inv |-> "none"]
    /\ pc = [i \in Inv |-> "idle"]
    /\ audio = [i \in Inv |-> NoClip]
    /\ api_key = [i \in Inv |-> None]
    /\ transcription = [i \in Inv |-> ""]
    /\ response = [i \in Inv |-> ""]
    /\ result = [i \in Inv |-> <<>>]
    /\ raised = [i \in Inv |-> ""]
    /\ trCalls = [i \in Inv |-> <<>>]
    /\ ccCalls = [i \in Inv |-> <<>>]
    /\ trOut = [i \in Inv |-> NoTranscriptionOutcome]
    /\ ccOut = [i \in Inv |-> NoCompletionOutcome]
    /\ events = [i \in Inv |-> <<>>]

----------------------------------------------------------------------------
\* Operations

\* Faulty variant: the Transcript is kept in one module-level variable
\* that every invocation shares.
TranscriptArg_Shared(i) == transcription[1]

\* The arguments process_audio passes on line 158.
TranscriptArg(i) == transcription[i]

KeyArg(i) == api_key[i]

\* The caller invokes process_audio(a, k): the api_key check, then
\* transcribe_audio up to its return, its exception or its remote call.
InvokeProcessAudio(i) ==
    /\ pc[i] = "idle"
    /\ \E a \in AudioInputs, k \in KeyInputs :
      \E env \in EnvRead(k) :
        LET b == TranscribeBegin(a, k, env) IN
        /\ fn' = [fn EXCEPT ![i] = "process_audio"]
        /\ audio' = [audio EXCEPT ![i] = a]
        /\ api_key' = [api_key EXCEPT ![i] = k]
        /\ IF ~Truthy(k)
           THEN /\ result' = [result EXCEPT ![i] = GuidancePair]
                /\ pc' = [pc EXCEPT ![i] = "done"]
                /\ UNCHANGED <<transcription, raised, trCalls, events>>
           ELSE /\ UNCHANGED result
                /\ pc' = [pc EXCEPT ![i] =
                            CASE b.next = "return" -> "pa_158"
                              [] b.next = "raise" -> "raised"
                              [] b.next = "call" -> "ta_wait"]
                /\ transcription' = [transcription EXCEPT ![i] =
                            IF b.next = "return" THEN b.value ELSE @]
                /\ raised' = [raised EXCEPT ![i] =
                            IF b.next = "raise" THEN b.exc ELSE @]
                /\ trCalls' = [trCalls EXCEPT ![i] =
                            IF b.next = "call" THEN Append(@, b.request) ELSE @]
                /\ events' = [events EXCEPT ![i] =
                            CASE b.next = "return" -> Append(@, "ta_return")
                              [] b.next = "raise" -> @
                              [] b.next = "call" -> Append(@, "tr_call")]
    /\ UNCHANGED <<response, ccCalls, trOut, ccOut>>

\* The caller invokes transcribe_audio(a, k) itself.
InvokeTranscribeAudio(i) ==
    /\ pc[i] = "idle"
    /\ \E a \in AudioInputs, k \in KeyInputs :
      \E env \in EnvRead(k) :
        LET b == TranscribeBegin(a, k, env) IN
        /\ fn' = [fn EXCEPT ![i] = "transcribe_audio"]
        /\ audio' = [audio EXCEPT ![i] = a]
        /\ api_key' = [api_key EXCEPT ![i] = k]
        /\ pc' = [pc EXCEPT ![i] =
                    CASE b.next = "return" -> "done"
                      [] b.next = "raise" -> "raised"
                      [] b.next = "call" -> "ta_wait"]
        /\ result' = [result EXCEPT ![i] =
                    IF b.next = "return" THEN <<b.value>> ELSE @]
        /\ raised' = [raised EXCEPT ![i] =
                    IF b.next = "raise" THEN b.exc ELSE @]
        /\ trCalls' = [trCalls EXCEPT ![i] =
                    IF b.next = "call" THEN Append(@, b.request) ELSE @]
        /\ events' = [events EXCEPT ![i] =
                    CASE b.next = "return" -> Append(@, "ta_return")
                      [] b.next = "raise" -> @
                      [] b.next = "call" -> Append(@, "tr_call")]
    /\ UNCHANGED <<transcription, response, ccCalls, trOut, ccOut>>

\* The speech-to-text endpoint answers, or the call fails; transcribe_audio
\* returns, and in process_audio line 157 assigns the value.
TranscriptionResponds(i) ==
    /\ pc[i] = "ta_wait"
    /\ \E o \in TranscriptionOutcomes :
        /\ trOut' = [trOut EXCEPT ![i] = o]
        /\ events' = [events EXCEPT ![i] = Append(@, "ta_return")]
        /\ IF fn[i] = "process_audio"
           THEN /\ transcription' = [transcription EXCEPT ![i] = TranscribeEnd(o)]
                /\ pc' = [pc EXCEPT ![i] = "pa_158"]
                /\ UNCHANGED result
           ELSE /\ result' = [result EXCEPT ![i] = <<TranscribeEnd(o)>>]
                /\ pc' = [pc EXCEPT ![i] = "done"]
                /\ UNCHANGED transcription
    /\ UNCHANGED <<fn, audio, api_key, response, raised, trCalls, ccCalls, ccOut>>

\* Faulty variant: the chat-completion request is sent a second time.
GenerateStarts_Twice(i, b) ==
    /\ pc' = [pc EXCEPT ![i] =
                CASE b.next = "return" -> "done"
                  [] b.next = "raise" -> "raised"
                  [] b.next = "call" -> "gr_wait"]
    /\ raised' = [raised EXCEPT ![i] =
                IF b.next = "raise" THEN b.exc ELSE @]
    /\ ccCalls' = [ccCalls EXCEPT ![i] =
                IF b.next = "call" THEN Append(Append(@, b.request), b.request) ELSE @]
    /\ events' = [events EXCEPT ![i] =
                CASE b.next = "return" -> Append(@, "gr_return")
                  [] b.next = "raise" -> @
                  [] b.next = "call" -> Append(Append(@, "cc_call"), "cc_call")]

\* What generate_response does with the value it reaches without a remote
\* call, or with the request it issues.
GenerateStarts(i, b) ==
    /\ pc' = [pc EXCEPT ![i] =
                CASE b.next = "return" -> "done"
                  [] b.next = "raise" -> "raised"
                  [] b.next = "call" -> "gr_wait"]
    /\ raised' = [raised EXCEPT ![i] =
                IF b.next = "raise" THEN b.exc ELSE @]
    /\ ccCalls' = [ccCalls EXCEPT ![i] =
                IF b.next = "call" THEN Append(@, b.request) ELSE @]
    /\ events' = [events EXCEPT ![i] =
                CASE b.next = "return" -> Append(@, "gr_return")
                  [] b.next = "raise" -> @
                  [] b.next = "call" -> Append(@, "cc_call")]

\* process_audio line 158 calls generate_response(transcription, api_key);
\* when that returns at once, lines 158-159 assign and return the pair.
ProcessAudioGenerates(i) ==
    /\ pc[i] = "pa_158"
    /\ \E env \in EnvRead(KeyArg(i)) :
        LET b == GenerateBegin(TranscriptArg(i), KeyArg(i), env) IN
        /\ GenerateStarts(i, b)
        /\ response' = [response EXCEPT ![i] =
                    IF b.next = "return" THEN b.value ELSE @]
        /\ result' = [result EXCEPT ![i] =
                    IF b.next = "return" THEN <<transcription[i], b.value>> ELSE @]
    /\ UNCHANGED <<fn, audio, api_key, transcription, trCalls, trOut, ccOut>>

\* The caller invokes generate_response(t, k) itself.
InvokeGenerateResponse(i) ==
    /\ pc[i] = "idle"
    /\ \E t \in TranscriptInputs, k \in KeyInputs :
      \E env \in EnvRead(k) :
        LET b == GenerateBegin(t, k, env) IN
        /\ fn' = [fn EXCEPT ![i] = "generate_response"]
        /\ transcription' = [transcription EXCEPT ![i] = t]
        /\ api_key' = [api_key EXCEPT ![i] = k]
        /\ GenerateStarts(i, b)
        /\ result' = [result EXCEPT ![i] =
                    IF b.next = "return" THEN <<b.value>> ELSE @]
    /\ UNCHANGED <<audio, response, trCalls, trOut, ccOut>>

\* The chat-completion endpoint answers, or the call fails;
\* generate_response returns, and process_audio returns the pair.
CompletionResponds(i) ==
    /\ pc[i] = "gr_wait"
    /\ \E o \in CompletionOutcomes :
        /\ ccOut' = [ccOut EXCEPT ![i] = o]
        /\ events' = [events EXCEPT ![i] = Append(@, "gr_return")]
        /\ pc' = [pc EXCEPT ![i] = "done"]
        /\ IF fn[i] = "process_audio"
           THEN /\ response' = [response EXCEPT ![i] = GenerateEnd(o)]
                /\ result' = [result EXCEPT ![i] = <<transcription[i], GenerateEnd(o)>>]
           ELSE /\ result' = [result EXCEPT ![i] = <<GenerateEnd(o)>>]
                /\ UNCHANGED response
    /\ UNCHANGED <<fn, audio, api_key, transcription, raised, trCalls, ccCalls, trOut>>

\* The function has returned or raised: its locals are dropped, and the
\* next submission starts from nothing.
Discard(i) ==
    /\ pc[i] \in {"done", "raised"}
    /\ fn' = [fn EXCEPT ![i] = "none"]
    /\ pc' = [pc EXCEPT ![i] = "idle"]
    /\ audio' = [audio EXCEPT ![i] = NoClip]
    /\ api_key' = [api_key EXCEPT ![i] = None]
    /\ transcription' = [transcription EXCEPT ![i] = ""]
    /\ response' = [response EXCEPT ![i] = ""]
    /\ result' = [result EXCEPT ![i] = <<>>]
    /\ raised' = [raised EXCEPT ![i] = ""]
    /\ trCalls' = [trCalls EXCEPT ![i] = <<>>]
    /\ ccCalls' = [ccCalls EXCEPT ![i] = <<>>]
    /\ trOut' = [trOut EXCEPT ![i] = NoTranscriptionOutcome]
    /\ ccOut' = [ccOut EXCEPT ![i] = NoCompletionOutcome]
    /\ events' = [events EXCEPT ![i] = <<>>]

Next ==
    \E i \in Inv :
        \/ InvokeProcessAudio(i)
        \/ InvokeTranscribeAudio(i)
        \/ InvokeGenerateResponse(i)
        \/ TranscriptionResponds(i)
        \/ ProcessAudioGenerates(i)
        \/ CompletionResponds(i)
        \/ Discard(i)

Spec == Init /\ [][Next]_vars

----------------------------------------------------------------------------
\* Vocabulary of the properties

IsProcessAudio(i) == fn[i] = "process_audio"

\* The api_key argument is a non-empty string.
KeyPresent(k) == k \notin {None, Str("")}

Count(seq, e) == Cardinality({n \in DOMAIN seq : seq[n] = e})

\* The remote call was answered with a failure.
TranscriptionFailed(i) == ~trOut[i].ok /\ trOut[i] # NoTranscriptionOutcome
CompletionFailed(i) == ~ccOut[i].ok /\ ccOut[i] # NoCompletionOutcome

----------------------------------------------------------------------------
\* C1: process_audio with an absent or empty api_key returns the fixed
\* guidance pair, whatever the audio, and issues neither remote call.
C1_MissingKeyShortCircuits ==
    \A i \in Inv :
        IsProcessAudio(i) /\ api_key[i] \in {None, Str("")} =>
            /\ pc[i] = "done"
            /\ result[i] = <<"Please enter your Groq API key.", "API key is required.">>
            /\ Len(trCalls[i]) = 0
            /\ Len(ccCalls[i]) = 0

C1_Witness ==
    \E i, j \in Inv :
        /\ IsProcessAudio(i) /\ api_key[i] = Str("") /\ audio[i] = GoodClip
        /\ IsProcessAudio(j) /\ api_key[j] = None /\ audio[j] = NoClip
        /\ pc[i] = "done" /\ pc[j] = "done"

\* C2: no invocation of transcribe_audio, generate_response or
\* process_audio ends by raising an exception to its caller.
C2_NeverRaises ==
    \A i \in Inv : pc[i] # "raised" /\ raised[i] = ""

\* C3: within one process_audio invocation with a non-empty api_key each
\* remote call is issued at most once, and the chat-completion call is
\* issued only after transcribe_audio has returned, with no transcription
\* call still outstanding.
C3_OrderedAtMostOnce ==
    \A i \in Inv :
        IsProcessAudio(i) /\ KeyPresent(api_key[i]) =>
            /\ Len(trCalls[i]) <= 1
            /\ Len(ccCalls[i]) <= 1
            /\ Count(events[i], "tr_call") = Len(trCalls[i])
            /\ Count(events[i], "cc_call") = Len(ccCalls[i])
            /\ \A n \in DOMAIN events[i] :
                events[i][n] = "cc_call" =>
                    /\ \E m \in 1..(n - 1) : events[i][m] = "ta_return"
                    /\ Count(SubSeq(events[i], 1, n - 1), "tr_call")
                         <= Count(SubSeq(events[i], 1, n - 1), "ta_return")

C3_Witness ==
    \E i \in Inv :
        /\ IsProcessAudio(i) /\ pc[i] = "done"
        /\ TranscriptionFailed(i) /\ CompletionFailed(i)
        /\ events[i] = <<"tr_call", "ta_return", "cc_call", "gr_return">>

\* C4: with a non-empty api_key and absent audio, transcribe_audio returns
\* "" without a remote call, and process_audio returns ("", placeholder)
\* with no remote call of either kind.
C4_AbsentAudio ==
    \A i \in Inv :
        KeyPresent(api_key[i]) /\ audio[i].kind = "None" =>
            /\ fn[i] = "transcribe_audio" =>
                /\ pc[i] = "done"
                /\ result[i] = <<"">>
                /\ Len(trCalls[i]) = 0 /\ Len(ccCalls[i]) = 0
            /\ fn[i] = "process_audio" =>
                /\ pc[i] \in {"pa_158", "done"}
                /\ transcription[i] = ""
                /\ Len(trCalls[i]) = 0 /\ Len(ccCalls[i]) = 0
                /\ pc[i] = "done" =>
                    result[i] =
                      <<"", "No transcription available. Please try speaking again.">>

C4_Witness ==
    \E i, j \in Inv :
        /\ IsProcessAudio(i) /\ api_key[i] = Str("abc") /\ audio[i] = NoClip
        /\ pc[i] = "done"
        /\ fn[j] = "transcribe_audio" /\ api_key[j] = Str("abc") /\ audio[j] = NoClip
        /\ pc[j] = "done"

\* C5: generate_response with an empty Transcript, whether from absent
\* audio or from a service that returned empty text, returns the fixed
\* placeholder and issues no chat-completion call.
C5_EmptyTranscript ==
    \A i \in Inv :
        /\ \A n \in DOMAIN ccCalls[i] : ccCalls[i][n].messages[2].content # ""
        /\ transcription[i] = "" /\ pc[i] = "done" =>
            /\ Len(ccCalls[i]) = 0
            /\ fn[i] = "generate_response" =>
                result[i] = <<"No transcription available. Please try speaking again.">>
            /\ fn[i] = "process_audio" /\ KeyPresent(api_key[i]) =>
                result[i] =
                  <<"", "No transcription available. Please try speaking again.">>

C5_Witness ==
    \E i, j \in Inv :
        /\ IsProcessAudio(i) /\ pc[i] = "done" /\ audio[i] = GoodClip
        /\ trOut[i].ok /\ trOut[i].text = "" /\ Len(trCalls[i]) = 1
        /\ fn[j] = "generate_response" /\ pc[j] = "done" /\ transcription[j] = ""

\* C6: a failed transcription call with message m makes transcribe_audio
\* return "Error in transcription: " + m; a failed chat-completion call
\* with message m makes generate_response return
\* "Error in response generation: " + m, and process_audio then still
\* returns the Transcript it obtained as its first component.
C6_LabelledErrors ==
    \A i \in Inv :
        /\ TranscriptionFailed(i) =>
            /\ fn[i] = "transcribe_audio" =>
                /\ pc[i] = "done"
                /\ result[i] = <<"Error in transcription: " \o trOut[i].msg>>
            /\ fn[i] = "process_audio" =>
                transcription[i] = "Error in transcription: " \o trOut[i].msg
        /\ CompletionFailed(i) =>
            /\ pc[i] = "done"
            /\ fn[i] = "generate_response" =>
                result[i] = <<"Error in response generation: " \o ccOut[i].msg>>
            /\ fn[i] = "process_audio" =>
                result[i] =
                  << IF trOut[i].ok THEN trOut[i].text
                     ELSE "Error in transcription: " \o trOut[i].msg,
                     "Error in response generation: " \o ccOut[i].msg >>

C6_Witness ==
    \E i, j \in Inv :
        /\ IsProcessAudio(i) /\ pc[i] = "done"
        /\ trOut[i].ok /\ trOut[i].text = "hello"
        /\ CompletionFailed(i) /\ ccOut[i].msg = "401"
        /\ fn[j] = "transcribe_audio" /\ pc[j] = "done"
        /\ TranscriptionFailed(j) /\ trOut[j].msg = "timeout"

\* C7: when the transcription service returns a non-empty text t, the
\* chat-completion call receives exactly the system message followed by a
\* user message with content t, and when the service answers with a
\* non-empty list of choices process_audio returns (t, first choice).
C7_HappyPath ==
    \A i \in Inv :
        IsProcessAudio(i) /\ trOut[i].ok /\ trOut[i].text # "" =>
            /\ pc[i] \in {"pa_158", "gr_wait", "done"}
            /\ pc[i] \in {"gr_wait", "done"} =>
                /\ Len(ccCalls[i]) = 1
                /\ ccCalls[i][1].messages =
                     << [role |-> "system", content |-> "You are a helpful assistant."],
                        [role |-> "user", content |-> trOut[i].text] >>
            /\ ccOut[i].ok /\ Len(ccOut[i].choices) > 0 =>
                /\ pc[i] = "done"
                /\ result[i] = <<trOut[i].text, ccOut[i].choices[1]>>

C7_Witness ==
    \E i \in Inv :
        /\ IsProcessAudio(i) /\ pc[i] = "done"
        /\ trOut[i].ok /\ trOut[i].text = "hello"
        /\ ccOut[i].ok /\ ccOut[i].choices = <<"hi", "yo">>

\* C8: in a process_audio invocation with a non-empty api_key k, also a
\* whitespace-only one, every remote call is made with a client configured
\* with exactly k.
C8_KeyForwardedVerbatim ==
    \A i \in Inv :
        IsProcessAudio(i) /\ KeyPresent(api_key[i]) =>
            /\ \A n \in DOMAIN trCalls[i] : trCalls[i][n].api_key = api_key[i]
            /\ \A n \in DOMAIN ccCalls[i] : ccCalls[i][n].api_key = api_key[i]

C8_Witness ==
    \E i, j \in Inv :
        /\ IsProcessAudio(i) /\ api_key[i] = Str(" ") /\ pc[i] = "done"
        /\ Len(trCalls[i]) = 1 /\ Len(ccCalls[i]) = 1
        /\ IsProcessAudio(j) /\ api_key[j] = Str("abc") /\ pc[j] = "gr_wait"

\* C9: when the transcription call of a process_audio invocation fails,
\* the chat-completion call is still issued exactly once with the
\* error-labelled Transcript as its user message, and the second component
\* of the result is what generate_response yields for it, never the
\* empty-transcript placeholder.
C9_ErrorTranscriptIsCompleted ==
    \A i \in Inv :
        IsProcessAudio(i) /\ TranscriptionFailed(i) =>
            /\ pc[i] \in {"pa_158", "gr_wait", "done"}
            /\ pc[i] \in {"gr_wait", "done"} =>
                /\ Len(ccCalls[i]) = 1
                /\ ccCalls[i][1].messages[2].content =
                     "Error in transcription: " \o trOut[i].msg
            /\ pc[i] = "done" =>
                /\ Len(result[i]) = 2
                /\ result[i][2] # "No transcription available. Please try speaking again."
                /\ result[i][2] =
                     IF ccOut[i].ok
                     THEN IF Len(ccOut[i].choices) = 0
                          THEN "Error in response generation: list index out of range"
                          ELSE ccOut[i].choices[1]
                     ELSE "Error in response generation: " \o ccOut[i].msg

C9_Witness ==
    \E i \in Inv :
        /\ IsProcessAudio(i) /\ pc[i] = "done"
        /\ TranscriptionFailed(i) /\ trOut[i].msg = "timeout"
        /\ ccOut[i].ok /\ ccOut[i].choices = <<"hi", "yo">>

\* The Transcript an invocation obtains from its own audio and its own
\* transcription answer.
OwnTranscript(i) ==
    IF audio[i].kind = "None" THEN ""
    ELSE IF trOut[i].ok THEN trOut[i].text
    ELSE "Error in transcription: " \o trOut[i].msg

\* The Reply an invocation obtains from its own Transcript and its own
\* chat-completion answer.
OwnReply(i) ==
    IF OwnTranscript(i) = ""
    THEN "No transcription available. Please try speaking again."
    ELSE IF ccOut[i].ok
         THEN IF Len(ccOut[i].choices) = 0
              THEN "Error in response generation: list index out of range"
              ELSE ccOut[i].choices[1]
         ELSE "Error in response generation: " \o ccOut[i].msg

DeterminedByOwn ==
    \A i \in Inv :
        IsProcessAudio(i) /\ KeyPresent(api_key[i]) =>
            /\ \A n \in DOMAIN trCalls[i] :
                /\ trCalls[i][n].api_key = api_key[i]
                /\ trCalls[i][n].file = <<"audio.wav", WavEncode(audio[i])>>
            /\ \A n \in DOMAIN ccCalls[i] :
                /\ ccCalls[i][n].api_key = api_key[i]
                /\ ccCalls[i][n].messages[2].content = OwnTranscript(i)
            /\ pc[i] = "done" => result[i] = <<OwnTranscript(i), OwnReply(i)>>

Frame(i) ==
    <<fn[i], pc[i], audio[i], api_key[i], transcription[i], response[i],
      result[i], raised[i], trCalls[i], ccCalls[i], trOut[i], ccOut[i], events[i]>>

OnlyOwnWrites ==
    \A i \in Inv :
        (\E j \in Inv : j # i /\ pc'[j] # pc[j]) => Frame(i)' = Frame(i)

\* C10: invocations are independent: the requests an invocation issues and
\* the pair it returns are determined by its own inputs and the answers to
\* its own remote calls, however other invocations interleave with it, and
\* a step of one invocation writes nothing of another.
C10_Independent == []DeterminedByOwn /\ [][OnlyOwnWrites]_vars

C10_Witness ==
    \E i, j \in Inv :
        /\ i # j /\ IsProcessAudio(i) /\ IsProcessAudio(j)
        /\ pc[i] = "gr_wait" /\ pc[j] = "done"
        /\ events[j] = <<"tr_call", "ta_return", "cc_call", "gr_return">>
        /\ transcription[i] # transcription[j]
        /\ api_key[i] # api_key[j]

====
